---- MODULE Spec2Model ----
(***************************************************************************)
(* Event-Hub: the Event and Booking models (slug generation, validation,   *)
(* save hooks, unique slug index), the cached store connection (connectDB) *)
(* and the HTTP handlers GET /events, POST /events and GET /events/{slug}. *)
(*                                                                         *)
(* A JavaScript string is modelled as a sequence of one-character strings, *)
(* so that lowercasing, trimming and the regular-expression replacements   *)
(* are computed character by character.                                    *)
(***************************************************************************)
EXTENDS Integers, Sequences, FiniteSets, TLC

VARIABLES
    text,       \* the title handed to generateSlug (slug generator runs)
    slugOut,    \* what generateSlug returned for it
    uriSet,     \* process.env.MONGODB_URI is defined
    cached,     \* global.mongoose: conn (null or the instance), promise (null or an attempt)
    attempts,   \* every mongoose.connect call so far, in call order, with the state of
                \* the promise cached for it: "pending", "resolved" or "rejected"
    req,        \* the HTTP requests in progress: handler, position, response
    events,     \* the events collection
    nextId,     \* the next ObjectId
    bookings,   \* the bookings collection
    bookingOp,  \* the Booking save in progress, between pre-save hook and insert
    lastSave    \* the outcome of the last save of a stored Event document

vars == <<text, slugOut, uriSet, cached, attempts, req, events, nextId, bookings,
          bookingOp, lastSave>>

(***************************************************************************)
(* Characters and the character classes of the regular expressions.        *)
(***************************************************************************)
UpperLetters ==
    <<"A","B","C","D","E","F","G","H","I","J","K","L","M",
      "N","O","P","Q","R","S","T","U","V","W","X","Y","Z">>

LowerLetters ==
    <<"a","b","c","d","e","f","g","h","i","j","k","l","m",
      "n","o","p","q","r","s","t","u","v","w","x","y","z">>

Digits == {"0","1","2","3","4","5","6","7","8","9"}

Range(s) == {s[i] : i \in 1..Len(s)}

UpperSet == Range(UpperLetters)

LowerSet == Range(LowerLetters)

LowerOf == [c \in UpperSet |->
              LowerLetters[CHOOSE i \in 1..Len(UpperLetters) : UpperLetters[i] = c]]

\* String.prototype.toLowerCase on one character
LowerChar(c) == IF c \in UpperSet THEN LowerOf[c] ELSE c

WordChars == UpperSet \cup LowerSet \cup Digits \cup {"_"}

\* \w : [A-Za-z0-9_]
IsWord(c) == c \in WordChars

\* \s : white space
IsSpace(c) == c \in {" ", "\t", "\n"}

\* [\s_-]
IsSeparator(c) == IsSpace(c) \/ c = "_" \/ c = "-"

RECURSIVE ToLowerCase(_)
ToLowerCase(s) ==
    IF s = <<>> THEN <<>> ELSE <<LowerChar(Head(s))>> \o ToLowerCase(Tail(s))

RECURSIVE TrimStart(_)
TrimStart(s) == IF s # <<>> /\ IsSpace(Head(s)) THEN TrimStart(Tail(s)) ELSE s

RECURSIVE TrimEnd(_)
TrimEnd(s) ==
    IF s # <<>> /\ IsSpace(s[Len(s)]) THEN TrimEnd(SubSeq(s, 1, Len(s) - 1)) ELSE s

\* String.prototype.trim
Trim(s) == TrimEnd(TrimStart(s))

\* .replace(/[^\w\s-]/g, '')
RemoveSpecial(s) == SelectSeq(s, LAMBDA c : IsWord(c) \/ IsSpace(c) \/ c = "-")

RECURSIVE SkipSeparators(_)
SkipSeparators(s) ==
    IF s # <<>> /\ IsSeparator(Head(s)) THEN SkipSeparators(Tail(s)) ELSE s

\* .replace(/[\s_-]+/g, '-')
RECURSIVE CollapseSeparators(_)
CollapseSeparators(s) ==
    IF s = <<>> THEN <<>>
    ELSE IF IsSeparator(Head(s))
         THEN <<"-">> \o CollapseSeparators(SkipSeparators(s))
         ELSE <<Head(s)>> \o CollapseSeparators(Tail(s))

RECURSIVE StripLeadingHyphens(_)
StripLeadingHyphens(s) ==
    IF s # <<>> /\ Head(s) = "-" THEN StripLeadingHyphens(Tail(s)) ELSE s

RECURSIVE StripTrailingHyphens(_)
StripTrailingHyphens(s) ==
    IF s # <<>> /\ s[Len(s)] = "-"
    THEN StripTrailingHyphens(SubSeq(s, 1, Len(s) - 1))
    ELSE s

\* .replace(/^-+|-+$/g, '')
StripHyphens(s) == StripTrailingHyphens(StripLeadingHyphens(s))

\* a slug generator that forgets the final replace
generateSlugNoStrip(t) == CollapseSeparators(RemoveSpecial(Trim(ToLowerCase(t))))

generateSlug(t) ==
    StripHyphens(CollapseSeparators(RemoveSpecial(Trim(ToLowerCase(t)))))

(***************************************************************************)
(* Bounds of the model.                                                    *)
(***************************************************************************)
MaxAttempts == 3

NumReq == 2

MaxEvents == 2

MaxBookings == 1

Reqs == 1..NumReq

\* a string-valued input that is absent (undefined / null)
Undefined == <<"undefined">>

(***************************************************************************)
(* Responses. status 0 stands for "no response yet"; error is the message  *)
(* of the caught exception ("none" when there is none), ids the _id of     *)
(* each event in the body.                                                 *)
(***************************************************************************)
Response(st, msg, err, is) ==
    [status |-> st, message |-> msg, error |-> err, ids |-> is]

NoResponse == Response(0, "none", "none", <<>>)

IdleReq == [handler |-> "none", pc |-> "idle", wait |-> 0, param |-> Undefined,
            resp |-> NoResponse]

UriError == "Please define the MONGODB_URI environment variable inside .env.local"

ConnectError == "MongooseServerSelectionError"

\* error.message.includes("MONGODB_URI"): of the messages that occur, only
\* connectDB's own names the variable
MentionsUri(msg) == msg = UriError

\* the catch block of each handler
ErrorResponse(h, msg) ==
    IF h = "GET_SLUG"
    THEN IF MentionsUri(msg)
         THEN Response(500, "Database configuration error", "none", <<>>)
         ELSE Response(500, "Failed to fetch event", msg, <<>>)
    ELSE IF h = "POST"
         THEN Response(500, "Event Creation Failed", msg, <<>>)
         ELSE Response(500, "Event fetching failed.", msg, <<>>)

(***************************************************************************)
(* connectDB. Handler h is entered for request r (param: the slug route    *)
(* parameter of GET /events/{slug}) and calls connectDB(), which runs to   *)
(* its first await in one step: the MONGODB_URI check, the cached.conn     *)
(* check, and mongoose.connect when no promise is cached.                  *)
(***************************************************************************)
Entered(r, h, param, pc, w) ==
    [req EXCEPT ![r] = [handler |-> h, pc |-> pc, wait |-> w, param |-> param,
                        resp |-> NoResponse]]

Failed(r, msg) ==
    [req EXCEPT ![r].pc = "done", ![r].wait = 0,
                ![r].resp = ErrorResponse(req[r].handler, msg)]

connectDB(r, h, param) ==
    /\ req[r].pc \in {"idle", "done"}
    /\ h # "GET_SLUG" => param = Undefined
    /\ IF ~uriSet
       THEN /\ req' = [req EXCEPT ![r] = [handler |-> h, pc |-> "done", wait |-> 0,
                                          param |-> param,
                                          resp |-> ErrorResponse(h, UriError)]]
            /\ UNCHANGED <<cached, attempts>>
       ELSE IF cached.conn
       THEN /\ req' = Entered(r, h, param, "connected", 0)
            /\ UNCHANGED <<cached, attempts>>
       ELSE IF cached.promise = 0
       THEN /\ Len(attempts) < MaxAttempts
            /\ attempts' = Append(attempts, "pending")
            /\ cached' = [cached EXCEPT !.promise = Len(attempts) + 1]
            /\ req' = Entered(r, h, param, "awaiting", Len(attempts) + 1)
       ELSE /\ req' = Entered(r, h, param, "awaiting", cached.promise)
            /\ UNCHANGED <<cached, attempts>>
    /\ UNCHANGED <<uriSet, events, nextId, bookings, bookingOp, lastSave, text, slugOut>>

\* mongoose.connect(...) settles: .then passes the instance on ...
ConnectResolves(i) ==
    /\ i \in 1..Len(attempts)
    /\ attempts[i] = "pending"
    /\ attempts' = [attempts EXCEPT ![i] = "resolved"]
    /\ UNCHANGED <<cached, uriSet, req, events, nextId, bookings, bookingOp, lastSave,
                   text, slugOut>>

\* ... or .catch clears cached.promise and rethrows
ConnectRejects(i) ==
    /\ i \in 1..Len(attempts)
    /\ attempts[i] = "pending"
    /\ attempts' = [attempts EXCEPT ![i] = "rejected"]
    /\ cached' = [cached EXCEPT !.promise = 0]
    /\ UNCHANGED <<uriSet, req, events, nextId, bookings, bookingOp, lastSave,
                   text, slugOut>>

\* the continuation of `cached.conn = await cached.promise` in one caller
AwaitReturns(r) ==
    /\ req[r].pc = "awaiting"
    /\ attempts[req[r].wait] # "pending"
    /\ IF attempts[req[r].wait] = "resolved"
       THEN /\ cached' = [cached EXCEPT !.conn = TRUE]
            /\ req' = [req EXCEPT ![r].pc = "connected", ![r].wait = 0]
       ELSE /\ cached' = [cached EXCEPT !.promise = 0]
            /\ req' = Failed(r, ConnectError)
    /\ UNCHANGED <<attempts, uriSet, events, nextId, bookings, bookingOp, lastSave,
                   text, slugOut>>

\* mongoose holds an open connection (bufferCommands is false: a model
\* operation before that throws)
MongooseConnected == \E i \in 1..Len(attempts) : attempts[i] = "resolved"

(***************************************************************************)
(* The Event schema: setters, validators, the pre-save hook and the unique *)
(* index on slug.                                                          *)
(***************************************************************************)
RequiredStrings ==
    {"title", "description", "overview", "image", "venue", "location", "date",
     "time", "audience", "organizer"}

RequiredArrays == {"agenda", "tags"}

ModeEnum == {<<"o","n","l","i","n","e">>, <<"o","f","f","l","i","n","e">>,
             <<"h","y","b","r","i","d">>}

\* a JSON value, as JSON.parse returns it
JsonArray(items) == [type |-> "array", items |-> items]

JsonString(v) == [type |-> "string", items |-> <<v>>]

JsonNull == [type |-> "null", items |-> <<>>]

\* schema setter `trim: true` of a String path
SetString(v) == IF v = Undefined THEN Undefined ELSE Trim(v)

\* schema setters `trim: true, lowercase: true` of slug
SetSlug(v) == IF v = Undefined THEN Undefined ELSE ToLowerCase(Trim(v))

\* cast of a value to [String]: an array is kept, a scalar is wrapped
CastArray(j) == IF j.type = "null" THEN JsonNull ELSE JsonArray(j.items)

\* new Event(input): every path cast and run through its setters
NewEvent(in, id) ==
    [id |-> id,
     title |-> SetString(in.title), slug |-> SetSlug(in.slug),
     description |-> SetString(in.description), overview |-> SetString(in.overview),
     image |-> SetString(in.image), venue |-> SetString(in.venue),
     location |-> SetString(in.location), date |-> SetString(in.date),
     time |-> SetString(in.time), mode |-> in.mode,
     audience |-> SetString(in.audience), agenda |-> CastArray(in.agenda),
     organizer |-> SetString(in.organizer), tags |-> CastArray(in.tags)]

\* a schema whose agenda and tags accept the empty array
InvalidPathsNoArrays(doc) ==
    {f \in RequiredStrings : doc[f] = Undefined \/ Len(doc[f]) = 0}
      \cup (IF doc.mode \in ModeEnum THEN {} ELSE {"mode"})

\* the paths whose validators reject the document
InvalidPaths(doc) ==
    {f \in RequiredStrings : doc[f] = Undefined \/ Len(doc[f]) = 0}
      \cup (IF doc.mode \in ModeEnum THEN {} ELSE {"mode"})
      \cup {f \in RequiredArrays : doc[f].type = "null" \/ Len(doc[f].items) = 0}

\* sample date strings and what new Date(...).toISOString().split('T')[0] gives
DateIsoZ == <<"2","0","2","4","-","0","5","-","1","4","T","1","0",":","0","0","Z">>

DateDay == <<"2","0","2","4","-","0","5","-","1","4">>

normalizeDate(d) == IF d \in {DateIsoZ, DateDay} THEN DateDay ELSE Trim(d)

normalizeTime(t) == Trim(t)

\* a hook that keeps whatever slug the document carries
PreSaveKeepSlug(doc, modified) ==
    [doc EXCEPT
        !.slug = IF doc.slug = Undefined THEN SetSlug(generateSlug(doc.title)) ELSE @,
        !.date = IF "date" \in modified THEN normalizeDate(@) ELSE @,
        !.time = IF "time" \in modified THEN normalizeTime(@) ELSE @]

\* eventSchema.pre('save'); `modified` are the paths isModified() reports
PreSave(doc, modified) ==
    [doc EXCEPT
        !.slug = IF "title" \in modified \/ doc.slug = Undefined \/ Len(doc.slug) = 0
                 THEN SetSlug(generateSlug(doc.title))
                 ELSE @,
        !.date = IF "date" \in modified THEN normalizeDate(@) ELSE @,
        !.time = IF "time" \in modified THEN normalizeTime(@) ELSE @]

\* a collection without the unique index
SlugTakenNever(slug, others) == FALSE

\* the unique index on slug: the write is refused when another document has it
SlugTaken(slug, others) == \E e \in others : e.slug = slug

ValidationError == "Event validation failed"

DuplicateKey == "E11000 duplicate key error"

\* document.save(): validation, then the pre-save hook, then the write
SaveOutcome(doc, modified, others) ==
    LET invalid == InvalidPaths(doc)
        hooked == PreSave(doc, modified)
    IN  IF invalid # {}
        THEN [ok |-> FALSE, error |-> ValidationError, paths |-> invalid, doc |-> doc]
        ELSE IF SlugTaken(hooked.slug, others)
        THEN [ok |-> FALSE, error |-> DuplicateKey, paths |-> {}, doc |-> hooked]
        ELSE [ok |-> TRUE, error |-> "none", paths |-> {}, doc |-> hooked]

\* the paths a new document reports as modified: those that were given
GivenPaths(doc) ==
    {f \in RequiredStrings \cup {"slug"} : doc[f] # Undefined}

\* Event.create(input)
CreateOutcome(in, id, others) ==
    LET doc == NewEvent(in, id)
    IN  SaveOutcome(doc, GivenPaths(doc), others)

(***************************************************************************)
(* Inputs: titles, multipart forms, slug route parameters.                 *)
(***************************************************************************)
TitleReact == <<"R","e","a","c","t"," ","C","o","n","f">>

TitleReactAlt == <<" ","r","e","a","c","t","_","_","C","O","N","F","!">>

TitleVue == <<"V","u","e">>

TitleBang == <<"!","!">>

TitleSvelte == <<"S","v","e","l","t","e"," ">>

Titles == {TitleReact, TitleReactAlt, TitleVue, TitleBang}

Filled == <<"x">>

Blank == <<" ">>

Online == <<"o","n","l","i","n","e">>

Virtual == <<"v","i","r","t","u","a","l">>

SuppliedSlug == <<" ","M","y","-","S","l","u","g">>

SecureUrl == <<"h","t","t","p","s",":","/","/","c","d","n","/","i",".","p","n","g">>

\* the JSON texts sent as `tags` and `agenda`; "null" is what JSON.parse makes
\* of the null that formData.get returns for an absent field
JsonTexts == {"[\"a\",\"b\"]", "[]", "\"solo\"", "[\"a\",", "null"}

JsonWellFormed(t) == t # "[\"a\","

JsonParse(t) ==
    IF t = "[\"a\",\"b\"]" THEN JsonArray(<<"a", "b">>)
    ELSE IF t = "[]" THEN JsonArray(<<>>)
    ELSE IF t = "\"solo\"" THEN JsonString("solo")
    ELSE JsonNull

\* a form every field of which is acceptable; imageField is "file", "text"
\* (a text value under the key image) or "absent"
BaseForm(t) ==
    [title |-> t, slug |-> Undefined, description |-> Filled, overview |-> Filled,
     image |-> Filled, venue |-> Filled, location |-> Filled, date |-> DateIsoZ,
     time |-> <<" ","9","a","m">>, mode |-> Online, audience |-> Filled,
     organizer |-> Filled, tags |-> "[\"a\",\"b\"]", agenda |-> "[\"a\",\"b\"]",
     imageField |-> "file"]

FormStrings == RequiredStrings \ {"image"}

Forms ==
    {BaseForm(t) : t \in Titles}
      \cup {[BaseForm(TitleReact) EXCEPT ![f] = v] :
                f \in FormStrings, v \in {Undefined, <<>>, Blank}}
      \cup {[BaseForm(TitleReact) EXCEPT !.mode = v] : v \in {Undefined, Virtual}}
      \cup {[BaseForm(TitleReact) EXCEPT ![f] = v] : f \in RequiredArrays, v \in JsonTexts}
      \cup {[BaseForm(t) EXCEPT !.slug = SuppliedSlug] : t \in {TitleReact, TitleVue}}
      \cup {[BaseForm(TitleReact) EXCEPT !.imageField = v] : v \in {"text", "absent"}}
      \cup {[BaseForm(TitleReact) EXCEPT !.imageField = "absent", !.tags = "[\"a\","]}
      \cup {[BaseForm(TitleReactAlt) EXCEPT !.mode = Virtual]}

\* the forms sent where the handlers' error paths are beside the point
FewForms ==
    {BaseForm(TitleReact), BaseForm(TitleBang),
     [BaseForm(TitleVue) EXCEPT !.slug = SuppliedSlug],
     [BaseForm(TitleReact) EXCEPT !.agenda = "[]"]}

SlugParams ==
    {Undefined, <<>>, Blank,
     <<"R","E","A","C","T","-","C","O","N","F"," ">>,
     <<"r","e","a","c","t","-","c","o","n","f">>,
     <<"v","u","e">>,
     <<"m","y","-","s","l","u","g">>}

(***************************************************************************)
(* GET /events/{slug}, after `await connectDB()` has returned.             *)
(***************************************************************************)
\* a handler that looks the raw parameter up
SanitizeNot(param) == param

\* slug.trim().toLowerCase()
Sanitize(param) == ToLowerCase(Trim(param))

\* a test that takes a blank parameter for a slug
SlugRejectedNoTrim(param) == param = Undefined \/ Len(param) = 0

\* !slug || typeof slug !== "string" || slug.trim() === ""
SlugRejected(param) == param = Undefined \/ Len(Trim(param)) = 0

\* Event.findOne({ slug }): the documents whose slug is exactly `slug`
FindBySlug(slug) == {e \in events : e.slug = slug}

GetSlugResponse(param) ==
    IF SlugRejected(param)
    THEN Response(400, "Invalid or missing slug parameter", "none", <<>>)
    ELSE IF FindBySlug(Sanitize(param)) = {}
         THEN Response(404, "Event with slug not found", "none", <<>>)
         ELSE Response(200, "Event fetched successfully", "none",
                       <<(CHOOSE e \in FindBySlug(Sanitize(param)) : TRUE).id>>)

GetSlugBody(r) ==
    /\ req[r].pc = "connected"
    /\ req[r].handler = "GET_SLUG"
    /\ req' = [req EXCEPT ![r].pc = "done", ![r].resp = GetSlugResponse(req[r].param)]
    /\ UNCHANGED <<uriSet, cached, attempts, events, nextId, bookings, bookingOp,
                   lastSave, text, slugOut>>

(***************************************************************************)
(* GET /events: Event.find().sort({createdAt: -1}).                        *)
(***************************************************************************)
RECURSIVE NewestFirst(_)
NewestFirst(ids) ==
    IF ids = {} THEN <<>>
    ELSE LET m == CHOOSE x \in ids : \A y \in ids : y <= x
         IN  <<m>> \o NewestFirst(ids \ {m})

GetListBody(r) ==
    /\ req[r].pc = "connected"
    /\ req[r].handler = "GET_LIST"
    /\ req' = [req EXCEPT ![r].pc = "done",
                          ![r].resp = Response(200, "Event fetched successfully.", "none",
                                               NewestFirst({e.id : e \in events}))]
    /\ UNCHANGED <<uriSet, cached, attempts, events, nextId, bookings, bookingOp,
                   lastSave, text, slugOut>>

(***************************************************************************)
(* POST /events, after `await connectDB()` has returned.                   *)
(***************************************************************************)
SyntaxError == "Unexpected token in JSON"

TypeError == "file.arrayBuffer is not a function"

UploadError == "upload failed"

\* the object handed to Event.create: the form's entries, image replaced by
\* the uploaded asset's URL, tags and agenda by the parsed values
CreateInput(form) ==
    [title |-> form.title, slug |-> form.slug, description |-> form.description,
     overview |-> form.overview, image |-> SecureUrl, venue |-> form.venue,
     location |-> form.location, date |-> form.date, time |-> form.time,
     mode |-> form.mode, audience |-> form.audience, organizer |-> form.organizer,
     tags |-> JsonParse(form.tags), agenda |-> JsonParse(form.agenda)]

PostOutcome(form, uploadOk) ==
    IF form.imageField = "absent"
    THEN [resp |-> Response(400, "Image file is required", "none", <<>>), docs |-> {}]
    ELSE IF ~JsonWellFormed(form.tags) \/ ~JsonWellFormed(form.agenda)
    THEN [resp |-> ErrorResponse("POST", SyntaxError), docs |-> {}]
    ELSE IF form.imageField = "text"
    THEN [resp |-> ErrorResponse("POST", TypeError), docs |-> {}]
    ELSE IF ~uploadOk
    THEN [resp |-> ErrorResponse("POST", UploadError), docs |-> {}]
    ELSE LET out == CreateOutcome(CreateInput(form), nextId, events)
         IN  IF out.ok
             THEN [resp |-> Response(201, "Event Created Successfully", "none",
                                     <<out.doc.id>>),
                   docs |-> {out.doc}]
             ELSE [resp |-> ErrorResponse("POST", out.error), docs |-> {}]

PostBody(r, form, uploadOk) ==
    /\ req[r].pc = "connected"
    /\ req[r].handler = "POST"
    /\ LET out == PostOutcome(form, uploadOk)
       IN  /\ out.docs # {} => Cardinality(events) < MaxEvents
           /\ req' = [req EXCEPT ![r].pc = "done", ![r].resp = out.resp]
           /\ events' = events \cup out.docs
           /\ nextId' = IF out.docs # {} THEN nextId + 1 ELSE nextId
    /\ UNCHANGED <<uriSet, cached, attempts, bookings, bookingOp, lastSave, text, slugOut>>

(***************************************************************************)
(* A later save of a stored Event document: the caller assigns some paths  *)
(* of the loaded document and calls save(). Mongoose writes the modified   *)
(* paths in one update, which the unique index may refuse.                 *)
(***************************************************************************)
SaveMods ==
    [title : {Undefined, TitleSvelte, Blank},
     slug  : {Undefined, SuppliedSlug},
     date  : {Undefined}]

\* the loaded document with the caller's assignments, through the setters
Assigned(old, mods) ==
    [old EXCEPT
        !.title = IF mods.title = Undefined THEN @ ELSE SetString(mods.title),
        !.slug  = IF mods.slug = Undefined THEN @ ELSE SetSlug(mods.slug),
        !.date  = IF mods.date = Undefined THEN @ ELSE SetString(mods.date)]

\* isModified(path): the path was assigned a value other than the stored one
ModifiedPaths(old, new) == {f \in {"title", "slug", "date"} : new[f] # old[f]}

EventSave(id, mods) ==
    /\ req[1].pc = "connected"
    /\ \E old \in events :
          /\ old.id = id
          /\ LET new == Assigned(old, mods)
                 out == SaveOutcome(new, ModifiedPaths(old, new), events \ {old})
             IN  /\ events' = IF out.ok THEN (events \ {old}) \cup {out.doc} ELSE events
                 /\ lastSave' = [op |-> "save", error |-> out.error]
    /\ UNCHANGED <<uriSet, cached, attempts, req, nextId, bookings, bookingOp, text, slugOut>>

(***************************************************************************)
(* Event.create(input), called on the model itself by the code serving     *)
(* request 1, after its connectDB() has returned (as is the later save     *)
(* above).                                                                 *)
(***************************************************************************)
ModelInputs ==
    {CreateInput(form) : form \in
        {BaseForm(TitleReact), BaseForm(TitleBang),
         [BaseForm(TitleReact) EXCEPT !.slug = SuppliedSlug]}}
      \cup {[CreateInput(BaseForm(TitleReact)) EXCEPT ![f] = v] :
                f \in RequiredStrings, v \in {Undefined, <<>>, Blank}}
      \cup {[CreateInput(BaseForm(TitleReact)) EXCEPT !.mode = v] : v \in {Undefined, Virtual}}
      \cup {[CreateInput(BaseForm(TitleReact)) EXCEPT ![f] = v] :
                f \in RequiredArrays, v \in {JsonNull, JsonArray(<<>>), JsonString("solo")}}

EventCreate(in) ==
    /\ req[1].pc = "connected"
    /\ LET out == CreateOutcome(in, nextId, events)
       IN  /\ out.ok => Cardinality(events) < MaxEvents
           /\ events' = IF out.ok THEN events \cup {out.doc} ELSE events
           /\ nextId' = IF out.ok THEN nextId + 1 ELSE nextId
           /\ lastSave' = [op |-> "create", error |-> out.error]
    /\ UNCHANGED <<uriSet, cached, attempts, req, bookings, bookingOp, text, slugOut>>

(***************************************************************************)
(* The Booking schema and its pre-save hook.                               *)
(***************************************************************************)
NotSpaceOrAt(s) == \A i \in 1..Len(s) : ~IsSpace(s[i]) /\ s[i] # "@"

\* emailRegex.test(v): /^[^\s@]+@[^\s@]+\.[^\s@]+$/
EmailMatches(v) ==
    \E i \in 2..Len(v) : \E j \in (i + 2)..(Len(v) - 1) :
        /\ v[i] = "@"
        /\ v[j] = "."
        /\ NotSpaceOrAt(SubSeq(v, 1, i - 1))
        /\ NotSpaceOrAt(SubSeq(v, i + 1, j - 1))
        /\ NotSpaceOrAt(SubSeq(v, j + 1, Len(v)))

\* schema setters `trim: true, lowercase: true` of email
SetEmail(v) == IF v = Undefined THEN Undefined ELSE ToLowerCase(Trim(v))

Emails == {Undefined, <<" ","U","@","x",".","i","o"," ">>, <<"u","@","x">>}

\* eventId: 0 stands for a missing eventId
EventIds == 0..(MaxEvents + 1)

BookingInvalidPaths(doc) ==
    (IF doc.eventId = 0 THEN {"eventId"} ELSE {})
      \cup (IF doc.email = Undefined \/ ~EmailMatches(doc.email) THEN {"email"} ELSE {})

\* a hook that never looks the event up
EventMissingNever(eventId) == FALSE

\* Event.findById(this.eventId) finds nothing
EventMissing(eventId) == ~\E e \in events : e.id = eventId

BookingIdle(result) == [pc |-> "idle", eventId |-> 0, email |-> Undefined, result |-> result]

\* booking.save() up to the end of the pre-save hook: validation, then the lookup
BookingPreSave(eventId, email) ==
    /\ bookingOp.pc = "idle"
    /\ Len(bookings) < MaxBookings
    /\ LET doc == [eventId |-> eventId, email |-> SetEmail(email)]
       IN  bookingOp' =
             IF BookingInvalidPaths(doc) # {} THEN BookingIdle("Booking validation failed")
             ELSE IF ~MongooseConnected THEN BookingIdle("lookup failed")
             ELSE IF EventMissing(eventId) THEN BookingIdle("Event does not exist")
             ELSE [pc |-> "hooked", eventId |-> eventId, email |-> doc.email,
                   result |-> "none"]
    /\ UNCHANGED <<uriSet, cached, attempts, req, events, nextId, bookings, lastSave,
                   text, slugOut>>

\* the insert that follows a hook that called next() without an error
BookingInsert ==
    /\ bookingOp.pc = "hooked"
    /\ bookings' = Append(bookings, [eventId |-> bookingOp.eventId, email |-> bookingOp.email])
    /\ bookingOp' = BookingIdle("saved")
    /\ UNCHANGED <<uriSet, cached, attempts, req, events, nextId, lastSave, text, slugOut>>

(***************************************************************************)
(* Initial state and the specifications.                                   *)
(***************************************************************************)
AppInit ==
    /\ uriSet \in BOOLEAN
    /\ cached = [conn |-> FALSE, promise |-> 0]
    /\ attempts = <<>>
    /\ req = [r \in Reqs |-> IdleReq]
    /\ events = {}
    /\ nextId = 1
    /\ bookings = <<>>
    /\ bookingOp = BookingIdle("none")
    /\ lastSave = [op |-> "none", error |-> "none"]

Init ==
    /\ AppInit
    /\ text = <<>>
    /\ slugOut = Undefined

Connection ==
    \/ \E i \in 1..MaxAttempts : ConnectResolves(i)
    \/ \E i \in 1..MaxAttempts : ConnectRejects(i)
    \/ \E r \in Reqs : AwaitReturns(r)

\* concurrent requests to the two GET handlers
NextConn ==
    \/ \E r \in Reqs, param \in {Undefined, <<>>, Blank, <<"v","u","e">>} :
          connectDB(r, "GET_SLUG", param)
    \/ \E r \in Reqs : connectDB(r, "GET_LIST", Undefined)
    \/ Connection
    \/ \E r \in Reqs : GetSlugBody(r)
    \/ \E r \in Reqs : GetListBody(r)

SpecConn == Init /\ [][NextConn]_vars

\* one client (request 1) sending requests to the three handlers one after
\* the other; each handler touches the store in a single operation
Next ==
    \/ \E param \in SlugParams : connectDB(1, "GET_SLUG", param)
    \/ \E h \in {"GET_LIST", "POST"} : connectDB(1, h, Undefined)
    \/ Connection
    \/ GetSlugBody(1)
    \/ GetListBody(1)
    \/ \E form \in Forms, uploadOk \in BOOLEAN : PostBody(1, form, uploadOk)

Spec == Init /\ [][Next]_vars

\* the Event model used directly, inside a request whose connection attempt
\* succeeds: Event.create and later saves of the stored documents
NextModel ==
    \/ connectDB(1, "GET_LIST", Undefined)
    \/ \E i \in 1..MaxAttempts : ConnectResolves(i)
    \/ AwaitReturns(1)
    \/ \E in \in ModelInputs : EventCreate(in)
    \/ \E id \in 1..MaxEvents, mods \in SaveMods : EventSave(id, mods)

SpecModel == Init /\ [][NextModel]_vars

\* one client creating events, and Booking saves
NextBooking ==
    \/ connectDB(1, "POST", Undefined)
    \/ Connection
    \/ \E form \in FewForms : PostBody(1, form, TRUE)
    \/ \E eventId \in EventIds, email \in Emails : BookingPreSave(eventId, email)
    \/ BookingInsert

SpecBooking == Init /\ [][NextBooking]_vars

(***************************************************************************)
(* The slug generator applied to every title up to MaxLen characters over  *)
(* Sigma, and to the title "React Conf 2024!".                             *)
(***************************************************************************)
MaxLen == 4

Sigma == {"A", "b", "2", " ", "_", "-", "!"}

RECURSIVE StringsUpTo(_)
StringsUpTo(n) ==
    IF n = 0 THEN {<<>>}
    ELSE LET shorter == StringsUpTo(n - 1)
         IN  shorter \cup {Append(s, c) : s \in {x \in shorter : Len(x) = n - 1}, c \in Sigma}

ReactConfTitle == <<"R","e","a","c","t"," ","C","o","n","f"," ","2","0","2","4","!">>

ReactConfSlug == <<"r","e","a","c","t","-","c","o","n","f","-","2","0","2","4">>

InitSlug ==
    /\ AppInit
    /\ uriSet
    /\ text \in StringsUpTo(MaxLen) \cup {ReactConfTitle}
    /\ slugOut = Undefined

ApplyGenerateSlug ==
    /\ slugOut = Undefined
    /\ slugOut' = generateSlug(text)
    /\ UNCHANGED <<text, uriSet, cached, attempts, req, events, nextId, bookings,
                   bookingOp, lastSave>>

NextSlug == ApplyGenerateSlug

SpecSlug == InitSlug /\ [][NextSlug]_vars

\* The alphanumeric words of a string, in order: the maximal runs of
\* lowercase letters and digits, the characters outside [\w\s-] being invisible.
SlugChars == LowerSet \cup Digits

IsSlugChar(c) == c \in SlugChars

RECURSIVE JoinWords(_)
JoinWords(ws) ==
    IF ws = <<>> THEN <<>>
    ELSE IF Len(ws) = 1 THEN ws[1]
    ELSE ws[1] \o <<"-">> \o JoinWords(Tail(ws))

RECURSIVE WordsOf(_, _)
WordsOf(s, cur) ==
    IF s = <<>> THEN (IF cur = <<>> THEN <<>> ELSE <<cur>>)
    ELSE LET c == LowerChar(Head(s))
         IN  IF IsSlugChar(c) THEN WordsOf(Tail(s), Append(cur, c))
             ELSE IF IsSeparator(c)
                  THEN (IF cur = <<>> THEN <<>> ELSE <<cur>>) \o WordsOf(Tail(s), <<>>)
                  ELSE WordsOf(Tail(s), cur)

ReactConf == <<"r","e","a","c","t","-","c","o","n","f">>

\* the form reaches Event.create
C1_ReachesCreate(form, uploadOk) ==
    /\ uploadOk
    /\ form.imageField = "file"
    /\ JsonWellFormed(form.tags) /\ JsonWellFormed(form.agenda)

\* the input made of the form is one the validators accept
C1_Acceptable(form) == InvalidPaths(NewEvent(CreateInput(form), nextId)) = {}

C1_UniqueSlugs == \A a \in events : \A b \in events : a.slug = b.slug => a = b

C1_SecondFails ==
    req[1].pc = "connected" /\ req[1].handler = "POST" /\ events # {} =>
        \A form \in Forms, uploadOk \in BOOLEAN :
            (/\ C1_ReachesCreate(form, uploadOk)
             /\ C1_Acceptable(form)
             /\ generateSlug(form.title) \in {e.slug : e \in events}
             /\ PostBody(1, form, uploadOk))
                => /\ events' = events
                   /\ req'[1].resp.status = 500
                   /\ req'[1].resp.error = DuplicateKey

\* C1: no two stored events ever have the same slug; and a POST that creates
\* an (otherwise acceptable) event whose title generateSlug turns into the
\* slug of an event already stored fails with the duplicate-key error of the
\* unique index, answers 500 and leaves the set of stored events as it was.
C1_SlugUnique == []C1_UniqueSlugs /\ [][C1_SecondFails]_vars

C1_Witness ==
    /\ req[1].handler = "POST" /\ req[1].pc = "done"
    /\ req[1].resp.status = 500 /\ req[1].resp.error = DuplicateKey
    /\ \E e \in events : e.slug = ReactConf

C7_Readonly == req'[1].handler = "GET_SLUG" => events' = events /\ nextId' = nextId

C7_Answer ==
    (/\ req[1].handler = "GET_SLUG" /\ req[1].pc = "done"
     /\ cached.conn
     /\ req[1].param # Undefined
     /\ Trim(req[1].param) # <<>>)
        => LET hits == {e \in events : e.slug = ToLowerCase(Trim(req[1].param))}
           IN  IF hits # {}
               THEN /\ req[1].resp.status = 200
                    /\ \E e \in hits : req[1].resp.ids = <<e.id>>
               ELSE /\ req[1].resp.status = 404
                    /\ req[1].resp.error = "none"

\* C7: with the store connected, GET /events/{slug} with a non-blank
\* parameter answers 200 with a stored event whose slug is the parameter
\* trimmed and lowercased when there is one, and 404 (no error) when there is
\* none; no step of the request changes the stored events.
C7_FindBySlug == []C7_Answer /\ [][C7_Readonly]_vars

C7_Witness ==
    /\ req[1].handler = "GET_SLUG" /\ req[1].pc = "done"
    /\ req[1].param = <<"R","E","A","C","T","-","C","O","N","F"," ">>
    /\ req[1].resp.status = 200
    /\ \E e \in events : e.slug = ReactConf /\ req[1].resp.ids = <<e.id>>

C9_Statuses ==
    req[1].pc = "connected" /\ req[1].handler = "POST" =>
        \A form \in Forms, uploadOk \in BOOLEAN :
            (form.imageField # "text" /\ PostBody(1, form, uploadOk)) =>
                IF \/ form.imageField = "absent"
                   \/ ~JsonWellFormed(form.tags)
                   \/ ~JsonWellFormed(form.agenda)
                THEN req'[1].resp.status = 400 /\ events' = events
                ELSE IF events' # events
                     THEN req'[1].resp.status = 201
                     ELSE req'[1].resp.status = 500

\* C9: POST /events answers 201 when the event is created, 400 when the
\* image file is missing or `tags` or `agenda` is not well-formed JSON, and
\* 500 on every other failure.
C9_PostStatuses == [][C9_Statuses]_vars

(***************************************************************************)
(* Concurrent requests and the cached connection (specification SpecConn). *)
(***************************************************************************)
\* C3: mongoose.connect is invoked only when every earlier connection
\* attempt has failed: never while an attempt is still in flight and never
\* after one has succeeded, so at most one attempt is outstanding.
C3_SingleAttempt ==
    [][Len(attempts') > Len(attempts) =>
           \A i \in 1..Len(attempts) : attempts[i] = "rejected"]_vars

\* C4: when a connection attempt fails, cached.promise is cleared and
\* cached.conn is still unset, and every caller that awaited the attempt
\* gets the error.
C4_FailureClears ==
    [][/\ \A i \in 1..Len(attempts) :
             attempts[i] = "pending" /\ attempts'[i] = "rejected"
                 => cached'.promise = 0 /\ ~cached'.conn
       /\ \A r \in Reqs :
             (AwaitReturns(r) /\ attempts[req[r].wait] = "rejected")
                 => req'[r].pc = "done" /\ req'[r].resp.status = 500]_vars

C8_Blank(param) == param = Undefined \/ Trim(param) = <<>>

\* C8 as stated: every GET /events/{slug} whose slug parameter is missing or
\* blank is answered 400, and 500 is the answer when MONGODB_URI is not set.
C8_BlankIs400 ==
    \A r \in Reqs :
        req[r].handler = "GET_SLUG" /\ req[r].pc = "done" =>
            /\ C8_Blank(req[r].param) => req[r].resp.status = 400
            /\ ~uriSet => req[r].resp.status = 500

C8_Answered ==
    \A r \in Reqs :
        req[r].handler = "GET_SLUG" /\ req[r].pc = "done" =>
            /\ req[r].resp.status \in {200, 400, 404, 500}
            /\ C8_Blank(req[r].param) => req[r].resp.status \in {400, 500}
            /\ req[r].resp.status = 400 => C8_Blank(req[r].param) /\ uriSet
            /\ req[r].resp.status = 500 =>
                  \/ ~uriSet
                  \/ \E i \in 1..Len(attempts) : attempts[i] = "rejected"

C8_Steps ==
    \A r \in Reqs :
        /\ (GetSlugBody(r) /\ C8_Blank(req[r].param)) => req'[r].resp.status = 400
        /\ (AwaitReturns(r) /\ req[r].handler = "GET_SLUG"
              /\ attempts[req[r].wait] = "rejected")
               => /\ req'[r].resp.status = 500
                  /\ req'[r].resp.message = "Failed to fetch event"
        /\ (~uriSet /\ req[r].pc \in {"idle", "done"}
              /\ req'[r].handler = "GET_SLUG" /\ req'[r] # req[r])
               => /\ req'[r].pc = "done"
                  /\ req'[r].resp.status = 500
                  /\ req'[r].resp.message = "Database configuration error"

\* C8 amended: GET /events/{slug} calls connectDB before it looks at the
\* slug. It answers 500 when MONGODB_URI is not set or the connection attempt
\* it awaited failed, whatever the slug parameter; once connectDB has
\* returned, it answers 400 for every missing or blank slug parameter, and
\* only for those.
C8_ConnectFirst == []C8_Answered /\ [][C8_Steps]_vars

C8_Witness ==
    \E r \in Reqs :
        /\ req[r].handler = "GET_SLUG" /\ req[r].pc = "done"
        /\ req[r].param = Blank
        /\ req[r].resp.status = 400
        /\ cached.conn

(***************************************************************************)
(* The Event model: slugs and validation (specification SpecModel).        *)
(***************************************************************************)
\* C5 as stated: the slug of every stored event is generateSlug of its title.
C5_SlugOfTitle == \A e \in events : e.slug = generateSlug(e.title)

C5_OnCreate ==
    events' # events /\ lastSave'.op = "create" =>
        \A e \in events' \ events : e.slug = generateSlug(e.title)

C5_OnSave ==
    events' # events /\ lastSave'.op = "save" =>
        \A id \in 1..MaxEvents, mods \in SaveMods :
            EventSave(id, mods) =>
                \E old \in events, new \in events' :
                    /\ old.id = id /\ new.id = id
                    /\ events' = (events \ {old}) \cup {new}
                    /\ LET carried == IF mods.slug = Undefined THEN old.slug
                                      ELSE ToLowerCase(Trim(mods.slug))
                       IN  IF new.title # old.title \/ carried = <<>>
                           THEN new.slug = generateSlug(new.title)
                           ELSE new.slug = carried

\* C5 amended: an event that is created is stored with the slug generateSlug
\* of its title, whatever slug the input supplies. A later save regenerates
\* the slug from the title when the title was modified or the document
\* carries no slug; otherwise it stores the slug the document carries, the
\* stored one or one the caller has assigned (trimmed and lowercased), which
\* need not be generateSlug of the title.
C5_SlugRegenerated == [][C5_OnCreate /\ C5_OnSave]_vars

C5_Witness ==
    /\ lastSave = [op |-> "save", error |-> "none"]
    /\ \E e \in events : e.title = Trim(TitleSvelte) /\ e.slug = <<"s","v","e","l","t","e">>
    /\ \E e \in events : e.title = TitleReact /\ e.slug = <<"m","y","-","s","l","u","g">>

C10_Missing(v) == v = Undefined \/ Trim(v) = <<>>

C10_Defective(in) ==
    \/ \E f \in RequiredStrings : C10_Missing(in[f])
    \/ \E f \in RequiredArrays : in[f].type = "null" \/ in[f].items = <<>>
    \/ in.mode \notin {<<"o","n","l","i","n","e">>, <<"o","f","f","l","i","n","e">>,
                       <<"h","y","b","r","i","d">>}

\* the step is no Event.create of a defective input, or it has failed
C10_Rejected ==
    lastSave'.op = "create" =>
        \/ /\ events' = events
           /\ nextId' = nextId
           /\ lastSave'.error = ValidationError
        \/ ~\E in \in ModelInputs : C10_Defective(in) /\ EventCreate(in)

\* C10: Event.create fails with a validation error, and leaves the stored
\* events exactly as they were, when a required string field (title,
\* description, overview, image, venue, location, date, time, audience,
\* organizer) is missing, empty or blank, when agenda or tags is missing or
\* empty, or when mode is none of online, offline, hybrid.
C10_NoPartialRecord == [][C10_Rejected]_vars

C10_Witness ==
    /\ lastSave = [op |-> "create", error |-> ValidationError]
    /\ events # {}

(***************************************************************************)
(* Bookings (specification SpecBooking).                                   *)
(***************************************************************************)
C2_Stored(eventId) == \E e \in events : e.id = eventId

C2_Referential ==
    /\ \A i \in 1..Len(bookings) : C2_Stored(bookings[i].eventId)
    /\ bookingOp.pc = "hooked" => C2_Stored(bookingOp.eventId)

C2_Refused ==
    bookingOp.pc = "idle" =>
        \A eventId \in EventIds, email \in Emails :
            (~C2_Stored(eventId) /\ BookingPreSave(eventId, email)) =>
                /\ bookings' = bookings
                /\ bookingOp'.pc = "idle"
                /\ bookingOp'.result \in {"Booking validation failed", "lookup failed",
                                          "Event does not exist"}

\* C2: saving a Booking whose eventId identifies no stored Event at the time
\* of the pre-save lookup ends with an error and inserts nothing; so every
\* stored Booking, and every Booking whose hook has passed, refers to a
\* stored Event.
C2_BookingNeedsEvent == []C2_Referential /\ [][C2_Refused]_vars

C2_Witness ==
    /\ bookingOp = BookingIdle("Event does not exist")
    /\ events # {}
    /\ bookings = <<>>

====
